---- MODULE Spec2Model ----
(***************************************************************************)
(* OAuth2-with-PKCE session / token lifecycle of the Canva MCP server      *)
(* (src/src/server/server.ts): the pending-authorization registry          *)
(* (pendingAuthStates), the session token store (authSessions), the        *)
(* authenticated request gate (getValidAccessToken, canvaApiRequest) and   *)
(* the OAuth callback (handleAuthCallback), as a state machine.            *)
(*                                                                         *)
(* The server is single-threaded and event-driven: a handler runs without  *)
(* interruption up to its next await of a network answer, where it is      *)
(* suspended and other handlers run.  Each handler is therefore cut into   *)
(* one action per synchronous stretch.  A stretch is written as an         *)
(* operator that computes its outcome from the current state and its       *)
(* inputs: the reply it gives (if it gives one) and the new values of the  *)
(* maps it writes.  The action applies that outcome.                       *)
(***************************************************************************)
EXTENDS Integers, FiniteSets, Sequences, Bags, TLC

(***************************************************************************)
(* Bounds of the model.                                                    *)
(***************************************************************************)
NumSessions == 2   \* SSE connections ever opened (each gets a fresh auth session id)
MaxStates == 2     \* pending authorizations ever minted
MaxTokens == 3     \* successful token responses the provider ever gives
MaxTicks == 2      \* clock advances
MaxInFlight == 2   \* handlers of one kind suspended at an await at the same time

(***************************************************************************)
(* Time is Date.now() in milliseconds; the clock advances in steps of      *)
(* TickMs (6 minutes).  With the expires_in values below a record is seen  *)
(* with 11, 10, 5 and 4 minutes left, and with its expiry in the past.     *)
(***************************************************************************)
TickMs == 6 * 60 * 1000
\* expires_in (seconds) values the provider may answer with
ExpiresInChoices == {600, 660}

\* getValidAccessToken: session.expiresAt - 5 * 60 * 1000
RefreshBufferMs == 5 * 60 * 1000
\* handleAuthCallback: now - value.createdAt > 10 * 60 * 1000
PendingTtlMs == 10 * 60 * 1000

CANVA_REDIRECT_URI == "http://0.0.0.0:8001/auth/callback"
AuthorizeEndpoint == "https://www.canva.com/api/oauth/authorize"
\* generateAuthUrl: const scopes = [...]
ScopeList ==
    << "asset:read", "asset:write", "comment:read", "comment:write",
       "design:content:read", "design:content:write", "design:meta:read",
       "folder:read", "folder:write", "profile:read" >>

\* Array.prototype.join
RECURSIVE Join(_, _)
Join(seq, sep) ==
    IF seq = << >> THEN ""
    ELSE IF Len(seq) = 1 THEN seq[1]
    ELSE seq[1] \o sep \o Join(Tail(seq), sep)

\* generateAuthUrl: scopes.join(" ")
Scopes == Join(ScopeList, " ")

VARIABLES
    now,                \* Date.now()
    CANVA_CLIENT_ID,    \* process.env.CANVA_CLIENT_ID || ""
    CANVA_CLIENT_SECRET,\* process.env.CANVA_CLIENT_SECRET || ""
    sessions,           \* Map transport session id -> auth session id of its server
    nextConn,           \* SSE connections opened so far (source of fresh ids)
    authSessions,       \* Map auth session id -> {accessToken, refreshToken, expiresAt}
    pendingAuthStates,  \* Map state -> {sessionId, createdAt, codeVerifier}
    nextState,          \* states minted so far (source of fresh random values)
    issued,             \* token responses given so far (source of fresh tokens)
    calls,              \* bag of tool calls suspended at an await
    callbacks,          \* bag of OAuth callbacks suspended at the token exchange
    stateLog,           \* history: per state, "sent" once an exchange request was sent
                        \* for it and "ok" once one succeeded
    tokenLog,           \* history: per access token held in the store, the answer of
                        \* the token endpoint that carried it and when it arrived
    mintedBy            \* history: per state, the session whose tool call minted it

vars == <<now, CANVA_CLIENT_ID, CANVA_CLIENT_SECRET, sessions, nextConn, authSessions,
          pendingAuthStates, nextState, issued, calls, callbacks, stateLog, tokenLog,
          mintedBy>>

(***************************************************************************)
(* Maps (the source's Map objects) as functions with a growing domain.     *)
(***************************************************************************)
EmptyMap == [k \in {} |-> 0]
MapHas(m, k) == k \in DOMAIN m
MapSet(m, k, v) == [x \in (DOMAIN m) \cup {k} |-> IF x = k THEN v ELSE m[x]]
MapDelete(m, k) == [x \in (DOMAIN m) \ {k} |-> m[x]]

(***************************************************************************)
(* Values.                                                                 *)
(***************************************************************************)
NoToken == <<"none", 0>>
AccessTokenOf(n) == <<"access", n>>
RefreshTokenOf(n) == <<"refresh", n>>

\* The text of a message or of a response body is the sequence of its parts:
\* the literal pieces of the template string and the values interpolated
\* into it, each tagged with where it comes from.
Text(s) == <<"text", s>>
\* response.status
StatusPart(status) == <<"status", status>>
\* taken from a response of the provider: response.statusText, response.text()
ProviderText(what) == <<"provider", what>>
\* taken from the query string of the callback
QueryParam(value) == <<"query", value>>

\* a stretch that ends at an await gives no reply yet; one that sends nothing
NoReply == [type |-> "suspended"]
NoRequest == [to |-> "nobody"]

ToolNames == {"search-designs", "no-such-tool"}
KnownTools == {"search-designs"}

\* crypto.randomBytes(16).toString("hex"): the n-th fresh draw
RandomState(n) == n
\* generateCodeVerifier: crypto.randomBytes(32).toString("base64url"), the n-th fresh draw
generateCodeVerifier(n) == <<"verifier", n>>
\* generateCodeChallenge: base64url(sha256(verifier)), injective on the verifiers drawn
generateCodeChallenge(verifier) == <<"sha256", verifier>>

\* fault: the verifier itself is sent as the challenge, method plain
generateAuthUrlPlain(state, codeVerifier) ==
    [ endpoint |-> AuthorizeEndpoint,
      client_id |-> CANVA_CLIENT_ID,
      response_type |-> "code",
      redirect_uri |-> CANVA_REDIRECT_URI,
      state |-> state,
      scope |-> Scopes,
      code_challenge |-> codeVerifier,
      code_challenge_method |-> "plain" ]

generateAuthUrl(state, codeVerifier) ==
    [ endpoint |-> AuthorizeEndpoint,
      client_id |-> CANVA_CLIENT_ID,
      response_type |-> "code",
      redirect_uri |-> CANVA_REDIRECT_URI,
      state |-> state,
      scope |-> Scopes,
      code_challenge |-> generateCodeChallenge(codeVerifier),
      code_challenge_method |-> "S256" ]

\* fault: expires_in taken for milliseconds
ExpiresAtSeconds(t, expires_in) == t + expires_in

\* Date.now() + tokenData.expires_in * 1000
ExpiresAt(t, expires_in) == t + expires_in * 1000

\* the record handleAuthCallback stores after a successful exchange
NewSessionRecord(tokenData, t) ==
    [ accessToken |-> tokenData.access_token,
      refreshToken |-> tokenData.refresh_token,
      expiresAt |-> ExpiresAt(t, tokenData.expires_in) ]

\* fault: no buffer, a refresh only once the expiry has passed
NeedsRefreshNoBuffer(session, t) == t >= session.expiresAt

\* fault: the buffer is as long as the life of a pending authorization
NeedsRefreshWideBuffer(session, t) == t >= session.expiresAt - PendingTtlMs

\* getValidAccessToken: "Check if token is expired (with 5 minute buffer)"
NeedsRefresh(session, t) == t >= session.expiresAt - RefreshBufferMs

\* fault: the access token is assigned, the expiry is left as it was
RefreshedRecordStaleExpiry(session, tokenData, t) ==
    [ accessToken |-> tokenData.access_token,
      refreshToken |-> session.refreshToken,
      expiresAt |-> 0 ]

\* fault: the refresh token is taken from the response, present or not
RefreshedRecordResponseToken(session, tokenData, t) ==
    [ accessToken |-> tokenData.access_token,
      refreshToken |-> tokenData.refresh_token,
      expiresAt |-> ExpiresAt(t, tokenData.expires_in) ]

\* getValidAccessToken: the two assignments after refreshAccessToken resolved
\* (refreshToken is not assigned: the object keeps the one it was built with)
RefreshedRecord(session, tokenData, t) ==
    [ accessToken |-> tokenData.access_token,
      refreshToken |-> session.refreshToken,
      expiresAt |-> ExpiresAt(t, tokenData.expires_in) ]

\* handleAuthCallback: "Clean up old states (older than 10 minutes)"
IsOldState(entry, t) == t - entry.createdAt > PendingTtlMs

SweepOldStates(pending, t) ==
    [ k \in {x \in DOMAIN pending : ~IsOldState(pending[x], t)} |-> pending[k] ]

\* exchangeCodeForToken: the body of the POST it sends
ExchangeRequest(code, codeVerifier) ==
    [ to |-> "token endpoint", grant_type |-> "authorization_code", code |-> code,
      redirect_uri |-> CANVA_REDIRECT_URI, code_verifier |-> codeVerifier,
      client_id |-> CANVA_CLIENT_ID, client_secret |-> CANVA_CLIENT_SECRET ]

\* refreshAccessToken: the body of the POST it sends
RefreshRequest(refreshToken) ==
    [ to |-> "token endpoint", grant_type |-> "refresh_token",
      refresh_token |-> refreshToken,
      client_id |-> CANVA_CLIENT_ID, client_secret |-> CANVA_CLIENT_SECRET ]

\* fault: the fetch goes out without the access token
ApiRequestNoToken(accessToken) ==
    [ to |-> "design API", Authorization |-> <<"Bearer", NoToken>> ]

\* canvaApiRequest: the Authorization header of the fetch it sends
ApiRequest(accessToken) ==
    [ to |-> "design API", Authorization |-> <<"Bearer", accessToken>> ]

(***************************************************************************)
(* Initial state: the process has just started, with its credentials set.  *)
(***************************************************************************)
Init ==
    /\ now = 0
    /\ CANVA_CLIENT_ID = "client-id"
    /\ CANVA_CLIENT_SECRET = "client-secret"
    /\ sessions = EmptyMap
    /\ nextConn = 0
    /\ authSessions = EmptyMap
    /\ pendingAuthStates = EmptyMap
    /\ nextState = 0
    /\ issued = 0
    /\ calls = EmptyBag
    /\ callbacks = EmptyBag
    /\ stateLog = EmptyMap
    /\ tokenLog = EmptyMap
    /\ mintedBy = EmptyMap

Config == <<CANVA_CLIENT_ID, CANVA_CLIENT_SECRET>>

(***************************************************************************)
(* The outcome of a synchronous stretch of a handler: its reply, the       *)
(* request it sends, and the values of everything a handler can write.     *)
(* Keep is the outcome that replies, sends and writes nothing.             *)
(***************************************************************************)
Keep ==
    [ reply |-> NoReply,
      sent |-> NoRequest,
      authSessions |-> authSessions,
      pendingAuthStates |-> pendingAuthStates,
      nextState |-> nextState,
      calls |-> calls,
      callbacks |-> callbacks ]

Apply(o) ==
    /\ authSessions' = o.authSessions
    /\ pendingAuthStates' = o.pendingAuthStates
    /\ nextState' = o.nextState
    /\ calls' = o.calls
    /\ callbacks' = o.callbacks

BagAdd(B, x) == B (+) SetToBag({x})
BagRemove(B, x) == B (-) SetToBag({x})

\* handlers (tool calls and callbacks together) suspended at an await
InFlight == BagCardinality(calls) + BagCardinality(callbacks)
HasRoom == InFlight < MaxInFlight

(***************************************************************************)
(* The clock.                                                              *)
(***************************************************************************)
Tick ==
    /\ now < MaxTicks * TickMs
    /\ now' = now + TickMs
    /\ UNCHANGED <<Config, sessions, nextConn, authSessions, pendingAuthStates,
                   nextState, issued, calls, callbacks, stateLog, tokenLog, mintedBy>>

(***************************************************************************)
(* handleSseRequest (GET /mcp): a fresh auth session id, a server bound to *)
(* it, a transport entered in the connection table.                        *)
(***************************************************************************)
\* fault: the connection is bound to the auth session id of the first one
SseConnectReusesId ==
    /\ nextConn < NumSessions
    /\ nextConn' = nextConn + 1
    /\ sessions' = MapSet(sessions, nextConn + 1, 1)
    /\ UNCHANGED <<now, Config, authSessions, pendingAuthStates, nextState, issued,
                   calls, callbacks, stateLog, tokenLog, mintedBy>>

SseConnect ==
    /\ nextConn < NumSessions
    /\ nextConn' = nextConn + 1
    /\ sessions' = MapSet(sessions, nextConn + 1, nextConn + 1)
    /\ UNCHANGED <<now, Config, authSessions, pendingAuthStates, nextState, issued,
                   calls, callbacks, stateLog, tokenLog, mintedBy>>

\* fault: closing the transport evicts the record of its session
SseCloseEvicts(t) ==
    /\ MapHas(sessions, t)
    /\ sessions' = MapDelete(sessions, t)
    /\ authSessions' = MapDelete(authSessions, sessions[t])
    /\ UNCHANGED <<now, Config, nextConn, pendingAuthStates, nextState,
                   issued, calls, callbacks, stateLog, tokenLog, mintedBy>>

\* transport.onclose
SseClose(t) ==
    /\ MapHas(sessions, t)
    /\ sessions' = MapDelete(sessions, t)
    /\ UNCHANGED <<now, Config, nextConn, authSessions, pendingAuthStates, nextState,
                   issued, calls, callbacks, stateLog, tokenLog, mintedBy>>

(***************************************************************************)
(* CallToolRequestSchema handler, up to its first await.                    *)
(***************************************************************************)
\* "Check authentication for all tools": authSessions.has(sessionId)
IsAuthenticated(sessionId) == MapHas(authSessions, sessionId)

\* fault: the URL is returned but no pending authorization is registered
AuthRequiredUnregistered(sessionId) ==
    LET state == RandomState(nextState + 1)
        codeVerifier == generateCodeVerifier(nextState + 1)
    IN [Keep EXCEPT
          !.reply = [type |-> "text",
                     text |-> "Please authenticate with Canva to use this feature. Visit:",
                     authUrl |-> generateAuthUrl(state, codeVerifier)],
          !.nextState = nextState + 1]

\* fault: registering a pending authorization drops the ones registered before
AuthRequiredResetsRegistry(sessionId) ==
    LET state == RandomState(nextState + 1)
        codeVerifier == generateCodeVerifier(nextState + 1)
    IN [Keep EXCEPT
          !.reply = [type |-> "text",
                     text |-> "Please authenticate with Canva to use this feature. Visit:",
                     authUrl |-> generateAuthUrl(state, codeVerifier)],
          !.pendingAuthStates =
              MapSet(EmptyMap, state,
                     [sessionId |-> sessionId, createdAt |-> now,
                      codeVerifier |-> codeVerifier]),
          !.nextState = nextState + 1]

\* the branch taken when the session has no token record: a pending
\* authorization is registered and the authorization URL is the result
AuthRequired(sessionId) ==
    LET state == RandomState(nextState + 1)
        codeVerifier == generateCodeVerifier(nextState + 1)
    IN [Keep EXCEPT
          !.reply = [type |-> "text",
                     text |-> "Please authenticate with Canva to use this feature. Visit:",
                     authUrl |-> generateAuthUrl(state, codeVerifier)],
          !.pendingAuthStates =
              MapSet(pendingAuthStates, state,
                     [sessionId |-> sessionId, createdAt |-> now,
                      codeVerifier |-> codeVerifier]),
          !.nextState = nextState + 1]

\* default: throw new Error(`Unknown tool: ...`), or the zod parser of the
\* tool throwing on its arguments
CallThrows(message) ==
    [Keep EXCEPT !.reply = [type |-> "error", message |-> message]]

\* A tool call suspended at refreshAccessToken.  Its local `session` is a
\* reference to the stored object; of that object the suspended call keeps
\* the refreshToken, the one field no code assigns after the object is built
\* (accessToken and expiresAt are both assigned when the call resumes, before
\* anything reads them).
RefreshingCall(sessionId, session) ==
    [phase |-> "refresh", sessionId |-> sessionId,
     session |-> [refreshToken |-> session.refreshToken]]

\* A tool call suspended at the fetch of canvaApiRequest.
ForwardedCall == [phase |-> "api"]

\* canvaApiRequest -> getValidAccessToken, up to the first await: either the
\* refresh request is sent, or the stored access token goes into the fetch
GateEnter(sessionId) ==
    LET session == authSessions[sessionId]
    IN IF NeedsRefresh(session, now)
       THEN [Keep EXCEPT !.sent = RefreshRequest(session.refreshToken),
                         !.calls = BagAdd(calls, RefreshingCall(sessionId, session))]
       ELSE [Keep EXCEPT !.sent = ApiRequest(session.accessToken),
                         !.calls = BagAdd(calls, ForwardedCall)]

CallToolStep(sessionId, toolName, argsOk) ==
    IF ~IsAuthenticated(sessionId) THEN AuthRequired(sessionId)
    ELSE IF toolName \notin KnownTools
    THEN CallThrows(<<Text("Unknown tool:"), Text(toolName)>>)
    ELSE IF ~argsOk THEN CallThrows(<<Text("invalid arguments")>>)
    ELSE GateEnter(sessionId)

\* the call reaches canvaApiRequest
ReachesGate(sessionId, toolName, argsOk) ==
    IsAuthenticated(sessionId) /\ toolName \in KnownTools /\ argsOk

\* the bounds leave room for the call
CanCallTool(sessionId, toolName, argsOk) ==
    /\ ~IsAuthenticated(sessionId) => nextState < MaxStates
    /\ ReachesGate(sessionId, toolName, argsOk) => HasRoom

CallTool(t, toolName, argsOk) ==
    /\ MapHas(sessions, t)
    /\ CanCallTool(sessions[t], toolName, argsOk)
    /\ Apply(CallToolStep(sessions[t], toolName, argsOk))
    /\ mintedBy' = IF IsAuthenticated(sessions[t]) THEN mintedBy
                   ELSE MapSet(mintedBy, RandomState(nextState + 1), sessions[t])
    /\ UNCHANGED <<now, Config, sessions, nextConn, issued, stateLog, tokenLog>>

(***************************************************************************)
(* The token endpoint answers a refresh request.                           *)
(***************************************************************************)
\* the n-th successful answer of the token endpoint
TokenResponse(n, expires_in, withRefreshToken) ==
    [ access_token |-> AccessTokenOf(n),
      refresh_token |-> IF withRefreshToken THEN RefreshTokenOf(n) ELSE NoToken,
      expires_in |-> expires_in ]

\* history: the answer is logged under its access token; answers whose access
\* token the store no longer holds are dropped
LoggedAnswer(tokenData) ==
    LET log == MapSet(tokenLog, tokenData.access_token,
                      [expires_in |-> tokenData.expires_in, at |-> now])
        held == {authSessions'[sid].accessToken : sid \in DOMAIN authSessions'}
    IN [a \in (DOMAIN log) \cap held |-> log[a]]

Refreshing == {c \in BagToSet(calls) : c.phase = "refresh"}
Forwarded == {c \in BagToSet(calls) : c.phase = "api"}

\* getValidAccessToken after the await, then canvaApiRequest up to its fetch
RefreshOkStep(c, tokenData) ==
    LET session == RefreshedRecord(c.session, tokenData, now)
    IN [Keep EXCEPT
          !.sent = ApiRequest(session.accessToken),
          !.authSessions = MapSet(authSessions, c.sessionId, session),
          !.calls = BagAdd(BagRemove(calls, c), ForwardedCall)]

RefreshOk(c, expires_in, rotated) ==
    /\ c \in Refreshing
    /\ issued < MaxTokens
    /\ Apply(RefreshOkStep(c, TokenResponse(issued + 1, expires_in, rotated)))
    /\ issued' = issued + 1
    /\ tokenLog' = LoggedAnswer(TokenResponse(issued + 1, expires_in, rotated))
    /\ UNCHANGED <<now, Config, sessions, nextConn, stateLog, mintedBy>>

\* fault: the error names the refresh token that was rejected
RefreshFailStepLeaks(c) ==
    [Keep EXCEPT !.reply = [type |-> "error",
                            message |-> <<Text("Failed to refresh token:"),
                                          c.session.refreshToken,
                                          ProviderText("body")>>],
                 !.calls = BagRemove(calls, c)]

\* refreshAccessToken throws "Failed to refresh token: ..."; the tool call fails
RefreshFailStep(c) ==
    [Keep EXCEPT !.reply = [type |-> "error",
                            message |-> <<Text("Failed to refresh token:"),
                                          ProviderText("statusText"),
                                          ProviderText("body")>>],
                 !.calls = BagRemove(calls, c)]

RefreshFail(c) ==
    /\ c \in Refreshing
    /\ Apply(RefreshFailStep(c))
    /\ UNCHANGED <<now, Config, sessions, nextConn, issued, stateLog, tokenLog, mintedBy>>

(***************************************************************************)
(* The design API answers the forwarded request.                           *)
(***************************************************************************)
ApiStatuses == {200, 201, 204, 404, 500}
ResponseOk(status) == status >= 200 /\ status <= 299

\* fault: the body of a 204 answer is parsed like any other
CanvaApiResultNoContentParsed(status) ==
    IF ~ResponseOk(status)
    THEN [type |-> "error",
          message |-> <<Text("Canva API error:"), StatusPart(status),
                        ProviderText("body")>>]
    ELSE [type |-> "json"]

\* canvaApiRequest after the fetch
CanvaApiResult(status) ==
    IF ~ResponseOk(status)
    THEN [type |-> "error",
          message |-> <<Text("Canva API error:"), StatusPart(status),
                        ProviderText("body")>>]
    ELSE IF status = 204 THEN [type |-> "null"]
    ELSE [type |-> "json"]

ApiRespondStep(c, status) ==
    [Keep EXCEPT !.reply = CanvaApiResult(status), !.calls = BagRemove(calls, c)]

ApiRespond(c, status) ==
    /\ c \in Forwarded
    /\ Apply(ApiRespondStep(c, status))
    /\ UNCHANGED <<now, Config, sessions, nextConn, issued, stateLog, tokenLog, mintedBy>>

(***************************************************************************)
(* handleAuthCallback (GET /auth/callback), up to the token exchange.      *)
(***************************************************************************)
\* a state value no protected call ever minted
ForgedState == MaxStates + 1
\* url.searchParams.get(...): "" and 0 stand for an absent (or empty) parameter
CodeParams == {"", "code"}
ErrorParams == {"", "access_denied"}
StateParams == (0..nextState) \cup {ForgedState}

HttpReply(status, body) == [type |-> "http", status |-> status, body |-> body]

\* A callback suspended at exchangeCodeForToken, with its locals.
ExchangingCallback(state, pendingAuth) ==
    [state |-> state, pendingAuth |-> pendingAuth]

\* fault: the exchange goes on with some registered entry, not the one of the state
CallbackExchangeAnyEntry(code, state) ==
    LET pendingAuth == pendingAuthStates[CHOOSE s \in DOMAIN pendingAuthStates : TRUE]
    IN [Keep EXCEPT
          !.sent = ExchangeRequest(code, pendingAuth.codeVerifier),
          !.pendingAuthStates = SweepOldStates(pendingAuthStates, now),
          !.callbacks = BagAdd(callbacks, ExchangingCallback(state, pendingAuth))]

\* the lookup found an entry: the sweep runs, then exchangeCodeForToken is
\* awaited with the verifier of the entry that was looked up
CallbackExchange(code, state) ==
    LET pendingAuth == pendingAuthStates[state]
    IN [Keep EXCEPT
          !.sent = ExchangeRequest(code, pendingAuth.codeVerifier),
          !.pendingAuthStates = SweepOldStates(pendingAuthStates, now),
          !.callbacks = BagAdd(callbacks, ExchangingCallback(state, pendingAuth))]

\* fault: the error parameter is looked at only after the state lookup failed
handleAuthCallbackErrorLast(code, state, error) ==
    IF code = "" \/ state = 0
    THEN [Keep EXCEPT !.reply = HttpReply(400, <<Text("Missing code or state parameter")>>)]
    ELSE IF MapHas(pendingAuthStates, state)
    THEN CallbackExchange(code, state)
    ELSE IF error # ""
    THEN [Keep EXCEPT !.reply = HttpReply(400, <<Text("Authentication Failed"),
                                                QueryParam(error)>>)]
    ELSE [Keep EXCEPT !.reply = HttpReply(400, <<Text("Invalid or expired state parameter")>>)]

handleAuthCallback(code, state, error) ==
    IF error # ""
    THEN [Keep EXCEPT !.reply = HttpReply(400, <<Text("Authentication Failed"),
                                                QueryParam(error)>>)]
    ELSE IF code = "" \/ state = 0
    THEN [Keep EXCEPT !.reply = HttpReply(400, <<Text("Missing code or state parameter")>>)]
    ELSE IF ~MapHas(pendingAuthStates, state)
    THEN [Keep EXCEPT !.reply = HttpReply(400, <<Text("Invalid or expired state parameter")>>)]
    ELSE CallbackExchange(code, state)

\* the callback gets as far as exchangeCodeForToken
ReachesExchange(code, state, error) ==
    error = "" /\ code # "" /\ state # 0 /\ MapHas(pendingAuthStates, state)

Logged(log, state, what) ==
    MapSet(log, state, (IF MapHas(log, state) THEN log[state] ELSE {}) \cup {what})

AuthCallback(code, state, error) ==
    /\ ReachesExchange(code, state, error) => HasRoom
    /\ Apply(handleAuthCallback(code, state, error))
    /\ stateLog' = IF ReachesExchange(code, state, error)
                   THEN Logged(stateLog, state, "sent") ELSE stateLog
    /\ UNCHANGED <<now, Config, sessions, nextConn, issued, tokenLog, mintedBy>>

(***************************************************************************)
(* The token endpoint answers a code exchange.                             *)
(***************************************************************************)
Exchanging == BagToSet(callbacks)

\* fault: the pending authorization is kept after a successful exchange
ExchangeOkStepKeepsState(k, tokenData) ==
    [Keep EXCEPT
       !.reply = HttpReply(200, <<Text("Successfully Connected to Canva!")>>),
       !.authSessions = MapSet(authSessions, k.pendingAuth.sessionId,
                               NewSessionRecord(tokenData, now)),
       !.callbacks = BagRemove(callbacks, k)]

\* fault: the authenticated callback replays the call that was answered with the URL
ExchangeOkStepReplaysCall(k, tokenData) ==
    [Keep EXCEPT
       !.reply = HttpReply(200, <<Text("Successfully Connected to Canva!")>>),
       !.sent = ApiRequest(tokenData.access_token),
       !.authSessions = MapSet(authSessions, k.pendingAuth.sessionId,
                               NewSessionRecord(tokenData, now)),
       !.pendingAuthStates = MapDelete(pendingAuthStates, k.state),
       !.calls = BagAdd(calls, ForwardedCall),
       !.callbacks = BagRemove(callbacks, k)]

\* fault: an existing record is updated in place and keeps its refresh token
ExchangeOkStepMerges(k, tokenData) ==
    LET sessionId == k.pendingAuth.sessionId
        fresh == NewSessionRecord(tokenData, now)
    IN [Keep EXCEPT
          !.reply = HttpReply(200, <<Text("Successfully Connected to Canva!")>>),
          !.authSessions =
              MapSet(authSessions, sessionId,
                     IF MapHas(authSessions, sessionId)
                     THEN [fresh EXCEPT !.refreshToken =
                                           authSessions[sessionId].refreshToken]
                     ELSE fresh),
          !.pendingAuthStates = MapDelete(pendingAuthStates, k.state),
          !.callbacks = BagRemove(callbacks, k)]

\* handleAuthCallback after the await, exchangeCodeForToken resolved
ExchangeOkStep(k, tokenData) ==
    [Keep EXCEPT
       !.reply = HttpReply(200, <<Text("Successfully Connected to Canva!")>>),
       !.authSessions = MapSet(authSessions, k.pendingAuth.sessionId,
                               NewSessionRecord(tokenData, now)),
       !.pendingAuthStates = MapDelete(pendingAuthStates, k.state),
       !.callbacks = BagRemove(callbacks, k)]

ExchangeOk(k, expires_in) ==
    /\ k \in Exchanging
    /\ issued < MaxTokens
    /\ Apply(ExchangeOkStep(k, TokenResponse(issued + 1, expires_in, TRUE)))
    /\ issued' = issued + 1
    /\ stateLog' = Logged(stateLog, k.state, "ok")
    /\ tokenLog' = LoggedAnswer(TokenResponse(issued + 1, expires_in, TRUE))
    /\ UNCHANGED <<now, Config, sessions, nextConn, mintedBy>>

\* fault: a failed exchange drops the record of the session
ExchangeFailStepEvicts(k) ==
    [Keep EXCEPT !.reply = HttpReply(500, <<Text("Authentication Error")>>),
                 !.authSessions = MapDelete(authSessions, k.pendingAuth.sessionId),
                 !.callbacks = BagRemove(callbacks, k)]

\* exchangeCodeForToken threw; the catch block answers 500
ExchangeFailStep(k) ==
    [Keep EXCEPT !.reply = HttpReply(500, <<Text("Authentication Error"),
                                            Text("Failed to exchange code for token:"),
                                            ProviderText("statusText"),
                                            ProviderText("body")>>),
                 !.callbacks = BagRemove(callbacks, k)]

ExchangeFail(k) ==
    /\ k \in Exchanging
    /\ Apply(ExchangeFailStep(k))
    /\ UNCHANGED <<now, Config, sessions, nextConn, issued, stateLog, tokenLog, mintedBy>>

(***************************************************************************)
(* The specification.                                                      *)
(***************************************************************************)
Next ==
    \/ Tick
    \/ SseConnect
    \/ \E t \in DOMAIN sessions : SseClose(t)
    \/ \E t \in DOMAIN sessions, toolName \in ToolNames, argsOk \in BOOLEAN :
          CallTool(t, toolName, argsOk)
    \/ \E c \in Refreshing, e \in ExpiresInChoices, rotated \in BOOLEAN :
          RefreshOk(c, e, rotated)
    \/ \E c \in Refreshing : RefreshFail(c)
    \/ \E c \in Forwarded, status \in ApiStatuses : ApiRespond(c, status)
    \/ \E code \in CodeParams, state \in StateParams, error \in ErrorParams :
          AuthCallback(code, state, error)
    \/ \E k \in Exchanging, e \in ExpiresInChoices : ExchangeOk(k, e)
    \/ \E k \in Exchanging : ExchangeFail(k)

Spec == Init /\ [][Next]_vars

(***************************************************************************)
(* The process started without its credentials: process.env.CANVA_CLIENT_ID *)
(* or process.env.CANVA_CLIENT_SECRET is unset, and the constant is "".     *)
(***************************************************************************)
InitUnconfigured ==
    /\ now = 0
    /\ \E env \in { <<"", "">>, <<"", "client-secret">>, <<"client-id", "">> } :
          /\ CANVA_CLIENT_ID = env[1]
          /\ CANVA_CLIENT_SECRET = env[2]
    /\ sessions = EmptyMap
    /\ nextConn = 0
    /\ authSessions = EmptyMap
    /\ pendingAuthStates = EmptyMap
    /\ nextState = 0
    /\ issued = 0
    /\ calls = EmptyBag
    /\ callbacks = EmptyBag
    /\ stateLog = EmptyMap
    /\ tokenLog = EmptyMap
    /\ mintedBy = EmptyMap

SpecUnconfigured == InitUnconfigured /\ [][Next]_vars

(***************************************************************************)
(* Progress.  The clock advances on its own.  Every other step is the      *)
(* arrival of a request or of an answer from outside the process; a        *)
(* handler suspended at a fetch resumes only with the answer to that       *)
(* fetch, which the source awaits without a timeout or an abort signal.    *)
(***************************************************************************)
\* the token endpoint answers a request (refresh or code exchange)
TokenEndpointAnswers ==
    \/ \E c \in Refreshing, e \in ExpiresInChoices, rotated \in BOOLEAN :
          RefreshOk(c, e, rotated)
    \/ \E c \in Refreshing : RefreshFail(c)
    \/ \E k \in Exchanging, e \in ExpiresInChoices : ExchangeOk(k, e)
    \/ \E k \in Exchanging : ExchangeFail(k)

\* some handler is suspended at a fetch to the token endpoint
AwaitingTokenEndpoint == Refreshing # {} \/ Exchanging # {}

LiveSpec == Init /\ [][Next]_vars /\ WF_vars(Tick)

(***************************************************************************)
(* Properties.  A property of a handler is stated on the outcome of its    *)
(* synchronous stretches, in every reachable state and for every input.    *)
(***************************************************************************)
OpenSessionIds == {sessions[t] : t \in DOMAIN sessions}
ValidCode == CodeParams \ {""}
TokenAnswers(withRefreshToken) ==
    {TokenResponse(issued + 1, e, withRefreshToken) : e \in ExpiresInChoices}

\* C1: for a session with no token record, a tool call (any tool name, any
\* arguments) returns a result carrying an authorization URL, registers the
\* pending authorization {state, sessionId, verifier, createdAt} the URL was
\* built from, and sends no request to the design API or the token endpoint.
C1_UnauthenticatedCallGetsAuthUrl ==
    \A sessionId \in OpenSessionIds, toolName \in ToolNames, argsOk \in BOOLEAN :
        ~MapHas(authSessions, sessionId) =>
            LET o == CallToolStep(sessionId, toolName, argsOk)
                minted == (DOMAIN o.pendingAuthStates) \ (DOMAIN pendingAuthStates)
            IN /\ o.reply.type = "text"
               /\ o.sent = NoRequest
               /\ o.calls = calls /\ o.callbacks = callbacks
               /\ o.authSessions = authSessions
               /\ Cardinality(minted) = 1
               /\ \A state \in minted :
                     LET entry == o.pendingAuthStates[state]
                     IN /\ entry.sessionId = sessionId
                        /\ entry.createdAt = now
                        /\ o.reply.authUrl.state = state
                        /\ o.reply.authUrl.code_challenge =
                              generateCodeChallenge(entry.codeVerifier)
               /\ \A state \in DOMAIN pendingAuthStates :
                     o.pendingAuthStates[state] = pendingAuthStates[state]

\* C1 witness: a pending authorization registered for a session that has no record
C1_Witness ==
    \E state \in DOMAIN pendingAuthStates :
        ~MapHas(authSessions, pendingAuthStates[state].sessionId)

\* C2: a callback with a code and a state that has a pending authorization
\* exchanges the code with that entry's verifier; when the exchange succeeds
\* the store holds, for the sessionId of that entry, the accessToken and
\* refreshToken of the token response with expiresAt = (time the response is
\* processed) + expires_in seconds, the entry of the state is removed and the
\* answer is 200.
C2_CallbackStoresTokens ==
    /\ \A code \in ValidCode, state \in DOMAIN pendingAuthStates :
          LET o == handleAuthCallback(code, state, "")
          IN /\ o.sent.code_verifier = pendingAuthStates[state].codeVerifier
             /\ o.callbacks =
                   BagAdd(callbacks, [state |-> state,
                                      pendingAuth |-> pendingAuthStates[state]])
    /\ \A k \in Exchanging, tokenData \in TokenAnswers(TRUE) :
          LET o == ExchangeOkStep(k, tokenData)
              sessionId == k.pendingAuth.sessionId
          IN /\ MapHas(o.authSessions, sessionId)
             /\ o.authSessions[sessionId].accessToken = tokenData.access_token
             /\ o.authSessions[sessionId].refreshToken = tokenData.refresh_token
             /\ o.authSessions[sessionId].expiresAt = now + tokenData.expires_in * 1000
             /\ ~MapHas(o.pendingAuthStates, k.state)
             /\ o.reply.type = "http" /\ o.reply.status = 200

\* C2 witness: an exchange succeeded and its session holds the record it stored
C2_Witness ==
    \E state \in DOMAIN stateLog, sessionId \in DOMAIN authSessions :
        /\ "ok" \in stateLog[state]
        /\ authSessions[sessionId].accessToken[2] = authSessions[sessionId].refreshToken[2]

\* C3: for a session whose record has expiresAt - now < 5 minutes, a protected
\* call sends one refresh request, carrying the record's refresh token, and
\* nothing else; when that refresh succeeds the record's accessToken is the
\* one of the refresh response, its expiresAt is (time of the refresh) +
\* expires_in, and the request then forwarded to the design API carries the
\* new access token, not the one the record held; the call sends no further
\* request to the token endpoint.
C3_RefreshInsideBuffer ==
    /\ \A sessionId \in OpenSessionIds, toolName \in KnownTools :
          (/\ MapHas(authSessions, sessionId)
           /\ authSessions[sessionId].expiresAt - now < 5 * 60 * 1000) =>
              LET o == CallToolStep(sessionId, toolName, TRUE)
                  record == authSessions[sessionId]
              IN /\ o.sent = RefreshRequest(record.refreshToken)
                 /\ BagCardinality(o.calls) = BagCardinality(calls) + 1
                 /\ \E c \in BagToSet(o.calls) :
                       /\ c.phase = "refresh"
                       /\ CopiesIn(c, o.calls) = CopiesIn(c, calls) + 1
                 /\ o.authSessions = authSessions
    /\ \A c \in Refreshing, tokenData \in TokenAnswers(TRUE) \cup TokenAnswers(FALSE) :
          LET o == RefreshOkStep(c, tokenData)
          IN /\ MapHas(o.authSessions, c.sessionId)
             /\ o.authSessions[c.sessionId].accessToken = tokenData.access_token
             /\ o.authSessions[c.sessionId].expiresAt = now + tokenData.expires_in * 1000
             /\ o.sent = ApiRequest(tokenData.access_token)
             /\ MapHas(authSessions, c.sessionId) =>
                   o.sent # ApiRequest(authSessions[c.sessionId].accessToken)
             /\ { x \in BagToSet(o.calls) : x.phase = "refresh" /\
                      CopiesIn(x, o.calls) > CopiesIn(x, calls) } = {}
    /\ \A c \in Forwarded, status \in ApiStatuses :
          ApiRespondStep(c, status).sent = NoRequest

\* C3 witness: a call refreshed the record of its session and is now
\* forwarding with the new token
C3_Witness ==
    /\ Forwarded # {}
    /\ \E sessionId \in DOMAIN authSessions :
          /\ authSessions[sessionId].accessToken[2] # authSessions[sessionId].refreshToken[2]
          /\ tokenLog[authSessions[sessionId].accessToken].at = now

\* C4: for a session whose record has expiresAt more than 5 minutes in the
\* future, a protected call sends no refresh request, leaves the record
\* unchanged and forwards the request with the stored access token; the
\* answer of the design API changes no record either.
C4_NoRefreshOutsideBuffer ==
    /\ \A sessionId \in OpenSessionIds, toolName \in KnownTools :
          (/\ MapHas(authSessions, sessionId)
           /\ authSessions[sessionId].expiresAt - now > 5 * 60 * 1000) =>
              LET o == CallToolStep(sessionId, toolName, TRUE)
              IN /\ o.sent = ApiRequest(authSessions[sessionId].accessToken)
                 /\ o.authSessions = authSessions
                 /\ o.calls = BagAdd(calls, ForwardedCall)
    /\ \A c \in Forwarded, status \in ApiStatuses :
          ApiRespondStep(c, status).authSessions = authSessions

\* C4 witness: a request is being forwarded for a session whose record is
\* outside the buffer, and no refresh has ever succeeded
C4_Witness ==
    /\ Forwarded # {}
    /\ issued = 1
    /\ \E sessionId \in DOMAIN authSessions :
          authSessions[sessionId].expiresAt - now > 5 * 60 * 1000

\* C5: while a refresh request of a tool call is in flight for a session,
\* another protected call for that session does not send a second refresh
\* request carrying the same refresh token (at most one refresh request is
\* issued for that expiry).
C5_AtMostOneRefreshInFlight ==
    \A c \in Refreshing, toolName \in KnownTools :
        MapHas(authSessions, c.sessionId) =>
            CallToolStep(c.sessionId, toolName, TRUE).sent
                # RefreshRequest(c.session.refreshToken)

\* C6: in every reachable state, whatever the interleaving of the calls that
\* refreshed it, the accessToken and the expiresAt of every record derive
\* from one and the same answer of the token endpoint: expiresAt is the time
\* that answer was processed plus its expires_in seconds.
C6_RecordFromOneResponse ==
    \A sessionId \in DOMAIN authSessions :
        LET record == authSessions[sessionId]
        IN /\ MapHas(tokenLog, record.accessToken)
           /\ record.expiresAt = tokenLog[record.accessToken].at
                                 + tokenLog[record.accessToken].expires_in * 1000

\* C6 witness: a refresh is still in flight for a session whose record another
\* call has refreshed in the meantime (the record is outside the buffer now,
\* so it was written after the refresh in flight was sent)
C6_Witness ==
    \E c \in Refreshing :
        /\ MapHas(authSessions, c.sessionId)
        /\ authSessions[c.sessionId].refreshToken = c.session.refreshToken
        /\ authSessions[c.sessionId].accessToken[2] # c.session.refreshToken[2]
        /\ ~NeedsRefresh(authSessions[c.sessionId], now)

\* C7: when the refresh of a protected call fails, the call fails with an
\* error without a request to the design API, and the next protected call of
\* that session returns an authorization URL instead of using or refreshing
\* the stale record again.
C7_RefreshFailureFallsBack ==
    [][ \A c \in Refreshing :
          RefreshFail(c) =>
             /\ RefreshFailStep(c).reply.type = "error"
             /\ RefreshFailStep(c).sent = NoRequest
             /\ \A toolName \in ToolNames, argsOk \in BOOLEAN :
                   (CallToolStep(c.sessionId, toolName, argsOk).reply.type = "text")'
      ]_vars

\* C8: a callback presenting a state whose pending authorization was created
\* more than 10 minutes earlier is rejected as invalid or expired, even if the
\* entry is still in the registry: no token exchange is attempted and no
\* record is created or changed.
C8_ExpiredStateRejected ==
    \A code \in CodeParams, state \in DOMAIN pendingAuthStates :
        now - pendingAuthStates[state].createdAt > 10 * 60 * 1000 =>
            LET o == handleAuthCallback(code, state, "")
            IN /\ o.reply.type = "http" /\ o.reply.status = 400
               /\ o.sent = NoRequest
               /\ o.callbacks = callbacks
               /\ o.authSessions = authSessions

\* C9: once a callback with state s has completed a successful exchange,
\* every later callback presenting s is answered 400 (invalid or expired
\* state when a code comes with it), sends no token exchange and leaves the
\* session token store unchanged.
C9_StateIsSingleUse ==
    \A state \in DOMAIN stateLog :
        "ok" \in stateLog[state] =>
            \A code \in CodeParams, error \in ErrorParams :
                LET o == handleAuthCallback(code, state, error)
                IN /\ o.reply.type = "http" /\ o.reply.status = 400
                   /\ (code # "" /\ error = "") =>
                         o.reply.body = <<Text("Invalid or expired state parameter")>>
                   /\ o.sent = NoRequest
                   /\ o.callbacks = callbacks
                   /\ o.authSessions = authSessions

\* C9 witness: some state has completed a successful exchange
C9_Witness ==
    \E state \in DOMAIN stateLog : "ok" \in stateLog[state]

\* C10: at most one token-exchange request is ever sent for a given state and
\* its verifier: a callback presenting a state for which an exchange request
\* was already sent (answered or still in flight) sends none.
C10_VerifierUsedOnce ==
    \A code \in CodeParams, state \in DOMAIN stateLog :
        "sent" \in stateLog[state] =>
            handleAuthCallback(code, state, "").sent = NoRequest

\* C11: after the token exchange of a callback with state s has failed, the
\* pending authorization of s is no longer usable: a callback presenting s
\* again is answered 400 and sends no token exchange.
C11_FailedExchangeIsTerminal ==
    [][ \A k \in Exchanging :
          ExchangeFail(k) =>
             \A code \in ValidCode :
                (/\ handleAuthCallback(code, k.state, "").reply.type = "http"
                 /\ handleAuthCallback(code, k.state, "").reply.status = 400
                 /\ handleAuthCallback(code, k.state, "").sent = NoRequest)'
      ]_vars

\* C12: a callback that carries an error parameter (whatever its code and
\* state), or lacks its code or its state, or presents a state that has no
\* entry in pendingAuthStates, is answered 400, sends no request, suspends no
\* handler and writes neither map.
C12_BadCallbackAnswered400 ==
    \A code \in CodeParams, state \in StateParams, error \in ErrorParams :
        (error # "" \/ code = "" \/ state = 0 \/ ~MapHas(pendingAuthStates, state)) =>
            LET o == handleAuthCallback(code, state, error)
            IN /\ o.reply.type = "http"
               /\ o.reply.status = 400
               /\ o.sent = NoRequest
               /\ o.callbacks = callbacks
               /\ o.authSessions = authSessions
               /\ o.pendingAuthStates = pendingAuthStates

\* C12 witness: a pending authorization is registered and a callback is
\* suspended at its exchange, and callbacks of each rejected kind (an error
\* beside a registered state and a code, no code, an unregistered state) are
\* answered 400 there
C12_Witness ==
    /\ Exchanging # {}
    /\ \E state \in DOMAIN pendingAuthStates :
          /\ handleAuthCallback("code", state, "access_denied").reply.status = 400
          /\ handleAuthCallback("", state, "").reply.status = 400
    /\ handleAuthCallback("code", ForgedState, "").reply.status = 400

C14_RotatedRefreshTokenAdopted ==
    \A c \in Refreshing, tokenData \in TokenAnswers(TRUE) :
        RefreshOkStep(c, tokenData).authSessions[c.sessionId].refreshToken
            = tokenData.refresh_token

\* C15: whenever a stretch of a handler sends a request to the design API it
\* is a protected call of an authenticated session S passing the gate (at
\* once, or after its refresh succeeded), and the request carries as bearer
\* the accessToken that S's record holds when that stretch ends: an access
\* token the token endpoint issued, which no other session's record holds.
\* No other stretch of any handler sends to the design API.
C15_BearerIsSessionsToken ==
    /\ \A sessionId \in OpenSessionIds, toolName \in ToolNames, argsOk \in BOOLEAN :
          LET o == CallToolStep(sessionId, toolName, argsOk)
          IN o.sent.to = "design API" =>
                /\ MapHas(o.authSessions, sessionId)
                /\ o.sent.Authorization
                      = <<"Bearer", o.authSessions[sessionId].accessToken>>
                /\ \E n \in 1..issued :
                      o.authSessions[sessionId].accessToken = AccessTokenOf(n)
                /\ \A other \in (DOMAIN o.authSessions) \ {sessionId} :
                      o.sent.Authorization
                          # <<"Bearer", o.authSessions[other].accessToken>>
    /\ \A sessionId \in OpenSessionIds, toolName \in KnownTools :
          (MapHas(authSessions, sessionId) /\ ~NeedsRefresh(authSessions[sessionId], now))
              => CallToolStep(sessionId, toolName, TRUE).sent.to = "design API"
    /\ \A c \in Refreshing, tokenData \in TokenAnswers(TRUE) \cup TokenAnswers(FALSE) :
          LET o == RefreshOkStep(c, tokenData)
          IN /\ o.sent.to = "design API"
             /\ o.sent.Authorization
                   = <<"Bearer", o.authSessions[c.sessionId].accessToken>>
             /\ o.authSessions[c.sessionId].accessToken = tokenData.access_token
             /\ \A other \in (DOMAIN o.authSessions) \ {c.sessionId} :
                   o.sent.Authorization
                       # <<"Bearer", o.authSessions[other].accessToken>>
    /\ \A c \in Refreshing : RefreshFailStep(c).sent.to # "design API"
    /\ \A c \in Forwarded, status \in ApiStatuses :
          ApiRespondStep(c, status).sent.to # "design API"
    /\ \A code \in CodeParams, state \in StateParams, error \in ErrorParams :
          handleAuthCallback(code, state, error).sent.to # "design API"
    /\ \A k \in Exchanging :
          /\ ExchangeFailStep(k).sent.to # "design API"
          /\ \A tokenData \in TokenAnswers(TRUE) :
                ExchangeOkStep(k, tokenData).sent.to # "design API"

\* C15 witness: two sessions hold records and a request is being forwarded
C15_Witness ==
    /\ Forwarded # {}
    /\ Cardinality(DOMAIN authSessions) = 2

\* C16: when the design API answers a forwarded request, canvaApiRequest
\* yields an error carrying the status and the body for a status outside
\* 200..299, null for 204 and the parsed body otherwise; it sends nothing
\* more (no retry), the call is over, and no record is written.
C16_CanvaApiRequestResult ==
    \A c \in Forwarded, status \in ApiStatuses :
        LET o == ApiRespondStep(c, status)
        IN /\ (status < 200 \/ status > 299) =>
                 /\ o.reply.type = "error"
                 /\ o.reply.message = <<<<"text", "Canva API error:">>, <<"status", status>>,
                                      <<"provider", "body">>>>
           /\ status = 204 => o.reply.type = "null"
           /\ (status >= 200 /\ status <= 299 /\ status # 204) => o.reply.type = "json"
           /\ o.sent = NoRequest
           /\ BagCardinality(o.calls) = BagCardinality(calls) - 1
           /\ o.authSessions = authSessions
           /\ o.pendingAuthStates = pendingAuthStates

\* C16 witness: a forwarded request awaits the design API, whose answers of
\* each kind end the call with an error, with null and with the parsed body
C16_Witness ==
    \E c \in Forwarded :
        /\ ApiRespondStep(c, 500).reply.type = "error"
        /\ ApiRespondStep(c, 204).reply.type = "null"
        /\ ApiRespondStep(c, 200).reply.type = "json"

\* C17: a tool call answered with the authorization URL leaves nothing
\* behind that could run later (no suspended call, no request); the callback
\* that authenticates the session, and one whose exchange fails, send no
\* request to the design API and start no call; every call that is suspended
\* belongs to a session that had its record when the call arrived; and a
\* tool call sends to the design API only if the record of its session
\* exists when it arrives.
C17_UnauthenticatedCallIsDropped ==
    /\ \A sessionId \in OpenSessionIds, toolName \in ToolNames, argsOk \in BOOLEAN :
          LET o == CallToolStep(sessionId, toolName, argsOk)
          IN /\ ~MapHas(authSessions, sessionId) =>
                   (o.calls = calls /\ o.callbacks = callbacks /\ o.sent = NoRequest)
             /\ o.sent.to = "design API" => MapHas(authSessions, sessionId)
    /\ \A k \in Exchanging :
          /\ \A tokenData \in TokenAnswers(TRUE) :
                LET o == ExchangeOkStep(k, tokenData)
                IN o.sent = NoRequest /\ o.calls = calls
          /\ ExchangeFailStep(k).sent = NoRequest
          /\ ExchangeFailStep(k).calls = calls
    /\ \A c \in Refreshing : MapHas(authSessions, c.sessionId)

\* C17 witness: a session that was answered with the authorization URL has
\* just been authenticated by its callback, and no call is in flight
C17_Witness ==
    /\ issued = 1
    /\ calls = EmptyBag
    /\ \E state \in DOMAIN stateLog : "ok" \in stateLog[state]
    /\ \E sessionId \in OpenSessionIds : MapHas(authSessions, sessionId)

\* C18: no step removes a record from authSessions: a session that has a
\* record has one after every step (tool call, callback, answer of the token
\* endpoint or the design API, transport close, clock).
C18_RecordNeverDestroyed ==
    [][ \A sessionId \in DOMAIN authSessions : sessionId \in DOMAIN authSessions' ]_vars

\* C18 witness: the transport of a session has been closed and the record of
\* the session is still in the store
C18_Witness ==
    \E sessionId \in DOMAIN authSessions : sessionId \notin OpenSessionIds

\* C19: when CANVA_CLIENT_ID or CANVA_CLIENT_SECRET is empty, a tool call of
\* a session without a record fails with an error: it returns no
\* authorization URL and registers no pending authorization; and no request
\* to the token endpoint is sent by a callback.
C19_UnconfiguredIsRefused ==
    (CANVA_CLIENT_ID = "" \/ CANVA_CLIENT_SECRET = "") =>
        /\ \A sessionId \in OpenSessionIds, toolName \in ToolNames, argsOk \in BOOLEAN :
              ~MapHas(authSessions, sessionId) =>
                  LET o == CallToolStep(sessionId, toolName, argsOk)
                  IN /\ o.reply.type = "error"
                     /\ o.pendingAuthStates = pendingAuthStates
        /\ \A code \in CodeParams, state \in StateParams, error \in ErrorParams :
              handleAuthCallback(code, state, error).sent.to # "token endpoint"

\* C20: in every behaviour in which the token endpoint stops answering, the
\* handlers suspended at a refresh or at a code exchange still come to an
\* end: either the token endpoint answers again and again, or whenever a
\* handler awaits the token endpoint there is a later state in which none
\* does.
C20_HandlersComplete ==
    \/ []<><<TokenEndpointAnswers>>_vars
    \/ (AwaitingTokenEndpoint ~> ~AwaitingTokenEndpoint)

\* C21: the authorization URL returned with a new pending authorization
\* carries the state the entry is stored under, the challenge of the verifier
\* stored in that entry (and of no other stored verifier), the method S256
\* and the ten scopes joined by single spaces; an entry never changes while
\* it is registered, and the token exchange of a callback presenting the
\* state sends the verifier of that entry.
C21_AuthUrlMatchesPendingEntry ==
    /\ \A sessionId \in OpenSessionIds, toolName \in ToolNames, argsOk \in BOOLEAN :
          ~MapHas(authSessions, sessionId) =>
              LET o == CallToolStep(sessionId, toolName, argsOk)
                  url == o.reply.authUrl
              IN \A state \in (DOMAIN o.pendingAuthStates) \ (DOMAIN pendingAuthStates) :
                    LET v == o.pendingAuthStates[state].codeVerifier
                    IN /\ url.state = state
                       /\ url.code_challenge = generateCodeChallenge(v)
                       /\ url.code_challenge_method = "S256"
                       /\ url.scope =
                             "asset:read asset:write comment:read comment:write design:content:read design:content:write design:meta:read folder:read folder:write profile:read"
                       /\ v = generateCodeVerifier(state)
                       /\ \A other \in DOMAIN pendingAuthStates :
                             /\ pendingAuthStates[other].codeVerifier # v
                             /\ url.code_challenge #
                                   generateCodeChallenge(pendingAuthStates[other].codeVerifier)
    /\ \A state \in DOMAIN pendingAuthStates :
          /\ pendingAuthStates[state].codeVerifier = generateCodeVerifier(state)
          /\ \A code \in ValidCode :
                handleAuthCallback(code, state, "").sent.code_verifier
                    = pendingAuthStates[state].codeVerifier
    /\ \A k \in Exchanging : k.pendingAuth.codeVerifier = generateCodeVerifier(k.state)

\* C21 witness: two pending authorizations are registered and the exchange
\* of a callback presenting one of them is in flight
C21_Witness ==
    /\ Cardinality(DOMAIN pendingAuthStates) = 2
    /\ \E k \in Exchanging : MapHas(pendingAuthStates, k.state)

\* the parts of the text a reply surfaces to the caller or the browser
Surfaced(reply) ==
    CASE reply.type = "text" ->
            {Text(reply.text), reply.authUrl.code_challenge,
             QueryParam(reply.authUrl.state)}
            \cup {Text(reply.authUrl[f]) :
                     f \in {"endpoint", "client_id", "response_type", "redirect_uri",
                            "scope", "code_challenge_method"}}
      [] reply.type = "error" -> {reply.message[i] : i \in DOMAIN reply.message}
      [] reply.type = "http" -> {reply.body[i] : i \in DOMAIN reply.body}
      [] reply.type = "json" -> {ProviderText("body")}
      [] OTHER -> {}

\* no part of the reply is an access token or a refresh token
TokenFree(reply) == \A part \in Surfaced(reply) : part[1] \notin {"access", "refresh"}

\* C22: no reply of any stretch of any handler (tool-call results, the
\* authorization-required message, tool-call errors, callback response
\* bodies) has an access token or a refresh token among the parts of its
\* text, and the text of a failure or of a callback answer is the same
\* whichever tokens the handler or the store holds.
C22_RepliesCarryNoToken ==
    /\ \A sessionId \in OpenSessionIds, toolName \in ToolNames, argsOk \in BOOLEAN :
          TokenFree(CallToolStep(sessionId, toolName, argsOk).reply)
    /\ \A c \in Refreshing :
          /\ TokenFree(RefreshFailStep(c).reply)
          /\ \A tokenData \in TokenAnswers(TRUE) \cup TokenAnswers(FALSE) :
                TokenFree(RefreshOkStep(c, tokenData).reply)
          /\ \A other \in Refreshing :
                RefreshFailStep(c).reply = RefreshFailStep(other).reply
    /\ \A c \in Forwarded, status \in ApiStatuses :
          /\ TokenFree(ApiRespondStep(c, status).reply)
          /\ ApiRespondStep(c, status).reply = CanvaApiResult(status)
    /\ \A code \in CodeParams, state \in StateParams, error \in ErrorParams :
          TokenFree(handleAuthCallback(code, state, error).reply)
    /\ \A k \in Exchanging :
          /\ TokenFree(ExchangeFailStep(k).reply)
          /\ \A tokenData \in TokenAnswers(TRUE) :
                /\ TokenFree(ExchangeOkStep(k, tokenData).reply)
                /\ ExchangeOkStep(k, tokenData).reply
                      = HttpReply(200, <<Text("Successfully Connected to Canva!")>>)
          /\ \A other \in Exchanging :
                ExchangeFailStep(k).reply = ExchangeFailStep(other).reply

\* C22 witness: two refreshes holding different refresh tokens are in
\* flight, and the failure of either surfaces a text
C22_Witness ==
    \E c \in Refreshing, other \in Refreshing :
        /\ c.session.refreshToken # other.session.refreshToken
        /\ Surfaced(RefreshFailStep(c).reply) # {}

\* C23: a protected call of an authenticated session sends a refresh request
\* if and only if expiresAt - now < 300000 ms; with 300000 ms or more left
\* it sends none, leaves the record unchanged and forwards the request with
\* the stored access token.
C23_StrictFiveMinuteBuffer ==
    \A sessionId \in OpenSessionIds, toolName \in KnownTools :
        MapHas(authSessions, sessionId) =>
            LET o == CallToolStep(sessionId, toolName, TRUE)
                record == authSessions[sessionId]
            IN /\ (o.sent.to = "token endpoint") <=> (record.expiresAt - now < 300000)
               /\ record.expiresAt - now >= 300000 =>
                     /\ o.sent = ApiRequest(record.accessToken)
                     /\ o.authSessions = authSessions

\* C24: after a callback that carries a code and a state, whether the state
\* is registered or not, no pending authorization created more than 10
\* minutes earlier is left in pendingAuthStates.
C24_CallbackSweepsRegistry ==
    \A code \in ValidCode, state \in StateParams \ {0} :
        LET o == handleAuthCallback(code, state, "")
        IN \A s \in DOMAIN o.pendingAuthStates :
              now - o.pendingAuthStates[s].createdAt <= 10 * 60 * 1000

\* C25: the store holds one record per session id; a successful exchange of
\* a callback, also for a session that already has a record, leaves under
\* that session exactly the record built from its token response
\* (accessToken, refreshToken, expiresAt = now + expires_in seconds), adds
\* no other entry and touches no other session's record.
C25_CallbackReplacesRecordWhole ==
    \A k \in Exchanging, tokenData \in TokenAnswers(TRUE) :
        LET o == ExchangeOkStep(k, tokenData)
            sessionId == k.pendingAuth.sessionId
        IN /\ DOMAIN o.authSessions = (DOMAIN authSessions) \cup {sessionId}
           /\ o.authSessions[sessionId] =
                 [ accessToken |-> tokenData.access_token,
                   refreshToken |-> tokenData.refresh_token,
                   expiresAt |-> now + tokenData.expires_in * 1000 ]
           /\ \A other \in (DOMAIN authSessions) \ {sessionId} :
                 o.authSessions[other] = authSessions[other]

\* C25 witness: two different states have completed a successful exchange
\* for the same session, whose record is the one of the later exchange
C25_Witness ==
    /\ Cardinality({state \in DOMAIN stateLog : "ok" \in stateLog[state]}) = 2
    /\ Cardinality(DOMAIN authSessions) = 1
    /\ \E sessionId \in DOMAIN authSessions :
          /\ authSessions[sessionId].accessToken = AccessTokenOf(2)
          /\ authSessions[sessionId].refreshToken = RefreshTokenOf(2)

\* C26: a callback writes authSessions only in the stretch that follows a
\* successful exchange: its first stretch (whatever its code, state and
\* error parameters, rejected or sending the exchange) and the stretch that
\* follows a failed exchange leave authSessions exactly as it was.
C26_FailedCallbackKeepsStore ==
    /\ \A code \in CodeParams, state \in StateParams, error \in ErrorParams :
          handleAuthCallback(code, state, error).authSessions = authSessions
    /\ \A k \in Exchanging : ExchangeFailStep(k).authSessions = authSessions

\* C26 witness: the only exchange sent for some state has failed, while the
\* store holds a record
C26_Witness ==
    /\ callbacks = EmptyBag
    /\ authSessions # EmptyMap
    /\ \E state \in DOMAIN stateLog : stateLog[state] = {"sent"}

\* C27: every record in the store belongs to a session whose own tool call
\* minted a state for which a callback completed a successful exchange; a
\* pending authorization, and the copy of it a suspended callback holds,
\* names the session whose tool call minted its state; and a successful
\* exchange writes the record of that session and of no other.
C27_RecordOnlyThroughOwnFlow ==
    /\ \A sessionId \in DOMAIN authSessions :
          \E state \in DOMAIN stateLog :
              "ok" \in stateLog[state] /\ mintedBy[state] = sessionId
    /\ \A state \in DOMAIN pendingAuthStates :
          /\ pendingAuthStates[state].sessionId = mintedBy[state]
          /\ \A code \in ValidCode :
                LET o == handleAuthCallback(code, state, "")
                IN \A k \in BagToSet(o.callbacks) :
                      k.pendingAuth.sessionId = mintedBy[k.state]
    /\ \A k \in Exchanging :
          /\ k.pendingAuth.sessionId = mintedBy[k.state]
          /\ \A tokenData \in TokenAnswers(TRUE) :
                LET o == ExchangeOkStep(k, tokenData)
                IN \A sessionId \in DOMAIN o.authSessions :
                      sessionId # mintedBy[k.state] =>
                          /\ MapHas(authSessions, sessionId)
                          /\ o.authSessions[sessionId] = authSessions[sessionId]
    /\ \A sessionId \in OpenSessionIds, toolName \in ToolNames, argsOk \in BOOLEAN :
          LET o == CallToolStep(sessionId, toolName, argsOk)
          IN \A state \in (DOMAIN o.pendingAuthStates) \ (DOMAIN pendingAuthStates) :
                o.pendingAuthStates[state].sessionId = sessionId

\* C27 witness: two sessions hold a record, each through a state of its own
C27_Witness ==
    /\ Cardinality(DOMAIN authSessions) = 2
    /\ \A sessionId \in DOMAIN authSessions :
          \E state \in DOMAIN stateLog :
              "ok" \in stateLog[state] /\ mintedBy[state] = sessionId

\* C28: when the record of a session was replaced by a successful exchange
\* while a refresh for that session was in flight (the store holds a record
\* with another refresh token than the one the refreshing call read), the
\* success of that refresh leaves the record written by the exchange in the
\* store.
C28_ReauthorizationSurvivesRefresh ==
    \A c \in Refreshing, tokenData \in TokenAnswers(TRUE) \cup TokenAnswers(FALSE) :
        (/\ MapHas(authSessions, c.sessionId)
         /\ authSessions[c.sessionId].refreshToken # c.session.refreshToken) =>
            RefreshOkStep(c, tokenData).authSessions[c.sessionId]
                = authSessions[c.sessionId]

\* C29: a tool call of session A, the success of a refresh of A and the
\* success of an exchange for A leave the record of every other session as
\* it was and create none for another session; the request a tool call of A
\* sends is built from A's record alone; and a tool call of A leaves every
\* pending authorization registered before it, whichever session it belongs
\* to, as it was.
C29_SessionsAreIsolated ==
    /\ \A sessionId \in OpenSessionIds, toolName \in ToolNames, argsOk \in BOOLEAN :
          LET o == CallToolStep(sessionId, toolName, argsOk)
          IN /\ o.authSessions = authSessions
             /\ \A state \in DOMAIN pendingAuthStates :
                   /\ MapHas(o.pendingAuthStates, state)
                   /\ o.pendingAuthStates[state] = pendingAuthStates[state]
             /\ MapHas(authSessions, sessionId) =>
                   o.sent \in { NoRequest,
                                RefreshRequest(authSessions[sessionId].refreshToken),
                                ApiRequest(authSessions[sessionId].accessToken) }
    /\ \A c \in Refreshing, tokenData \in TokenAnswers(TRUE) \cup TokenAnswers(FALSE) :
          LET o == RefreshOkStep(c, tokenData)
          IN /\ DOMAIN o.authSessions = (DOMAIN authSessions) \cup {c.sessionId}
             /\ \A other \in (DOMAIN authSessions) \ {c.sessionId} :
                   o.authSessions[other] = authSessions[other]
             /\ o.sent = ApiRequest(tokenData.access_token)
    /\ \A c \in Refreshing : RefreshFailStep(c).authSessions = authSessions
    /\ \A k \in Exchanging, tokenData \in TokenAnswers(TRUE) :
          LET o == ExchangeOkStep(k, tokenData)
          IN /\ DOMAIN o.authSessions = (DOMAIN authSessions) \cup {k.pendingAuth.sessionId}
             /\ \A other \in (DOMAIN authSessions) \ {k.pendingAuth.sessionId} :
                   o.authSessions[other] = authSessions[other]

\* C29 witness: a refresh of one session is in flight while another session
\* holds a record
C29_Witness ==
    \E c \in Refreshing : (DOMAIN authSessions) \ {c.sessionId} # {}

\* C30: a new SSE connection is bound to an auth session id that no open
\* connection, no record, no pending authorization and no suspended handler
\* names, so every tool call on it is answered with the authorization URL
\* until its own flow completes (a record exists only for a session whose
\* own tool call minted a state); closing a transport removes that
\* transport's entry from the connection table and nothing else; and an
\* auth session id whose transport was closed is never bound to a
\* connection again.
C30_FreshSessionPerConnection ==
    /\ [](\A sessionId \in DOMAIN authSessions :
             \E state \in DOMAIN mintedBy : mintedBy[state] = sessionId)
    /\ [][ /\ SseConnect =>
                \A t \in (DOMAIN sessions') \ (DOMAIN sessions) :
                    /\ sessions'[t] \notin OpenSessionIds
                    /\ sessions'[t] \notin DOMAIN authSessions'
                    /\ \A state \in DOMAIN pendingAuthStates' :
                          pendingAuthStates'[state].sessionId # sessions'[t]
                    /\ \A state \in DOMAIN mintedBy' : mintedBy'[state] # sessions'[t]
                    /\ \A k \in Exchanging' : k.pendingAuth.sessionId # sessions'[t]
                    /\ \A c \in Refreshing' : c.sessionId # sessions'[t]
                    /\ \A toolName \in ToolNames, argsOk \in BOOLEAN :
                          (CallToolStep(sessions[t], toolName, argsOk).reply.type = "text")'
           /\ \A t \in DOMAIN sessions :
                SseClose(t) =>
                    /\ sessions' = MapDelete(sessions, t)
                    /\ authSessions' = authSessions
                    /\ pendingAuthStates' = pendingAuthStates
           /\ \A sessionId \in (1..nextConn) \ OpenSessionIds :
                sessionId \notin OpenSessionIds'
         ]_vars

\* C30 witness: the record of a session whose transport was closed is in the
\* store, and a later connection, bound to another session id, is open
C30_Witness ==
    \E sessionId \in DOMAIN authSessions :
        /\ sessionId \notin OpenSessionIds
        /\ OpenSessionIds # {}
====
